---- MODULE Spec2Model ----
(***************************************************************************)
(* Model of the quiz application in src/app.py: the extraction gateway     *)
(* (parse_quiz_file_with_ai) and the session state machine driven by       *)
(* main().  One action per user event; each action is the complete script  *)
(* run that the event triggers, up to the st.rerun() that ends it.         *)
(*                                                                         *)
(* Indices are 0-based as in the source (current_question, the keys of     *)
(* user_answers); the question list is a TLA+ sequence, so question i of   *)
(* the source is questions[i + 1] here.                                    *)
(*                                                                         *)
(* Replies of the extraction service are modelled over well-typed records  *)
(* (question: string, options: list of strings, answer: string); the code  *)
(* performs no validation of its own, so every such record is admitted.    *)
(***************************************************************************)
EXTENDS Integers, Sequences, FiniteSets, TLC

VARIABLES state, questions, current_question, user_answers, upload_error, visited

\* visited is a history variable: the indices that have been the current
\* question since the store was loaded.  No handler reads it.
vars == <<state, questions, current_question, user_answers, upload_error, visited>>

\* ---------------------------------------------------------------- bounds
MaxQuestions == 2
MaxOptions == 2

\* ------------------------------------------------------------ value sets
\* Option strings a reply may carry; "" is extraction noise.
OptionStrings == {"", "A", "B"}
\* Answer strings a reply may carry; "C" is never among the options.
AnswerStrings == {"A", "C"}

\* Python's None: the default of dict.get and the value of an empty radio.
None == "<None>"

Range(f) == {f[x] : x \in DOMAIN f}

SeqsUpTo(S, n) == UNION {[1..k -> S] : k \in 0..n}

\* The option lists of a reply: at most MaxOptions strings.  The session reads
\* an option list only through the set of its strings (membership, and the
\* choices left when "" is filtered out), so one list per set of strings is
\* kept: the strings in increasing order of StringRank, without repetition.
StringRank(str) == CASE str = "" -> 0 [] str = "A" -> 1 [] str = "B" -> 2

OptionLists ==
    {opts \in SeqsUpTo(OptionStrings, MaxOptions) :
        \A i \in 1..(Len(opts) - 1) : StringRank(opts[i]) < StringRank(opts[i + 1])}

QuestionRecords ==
    [question : {"Q"}, options : OptionLists, answer : AnswerStrings]

Stores == SeqsUpTo(QuestionRecords, MaxQuestions)

\* ------------------------------------------------- reply text of the model
\* A reply text is a sequence of tokens.  Every token has the same shape so
\* that texts are comparable; val is meaningful for "object" tokens only.
NoRecord == [question |-> "", options |-> <<>>, answer |-> ""]
Tok(kind) == [kind |-> kind, val |-> NoRecord]
\* The fencing markers: three backticks followed by json, and three backticks.
FenceJson == Tok("fence_json")
Fence == Tok("fence")
LBracket == Tok("[")
RBracket == Tok("]")
Junk == Tok("junk")
Obj(r) == [kind |-> "object", val |-> r]

\* The text of a JSON array holding the records of store, in order.
ArrayText(store) ==
    <<LBracket>> \o [i \in 1..Len(store) |-> Obj(store[i])] \o <<RBracket>>

Bodies == {ArrayText(store) : store \in Stores} \cup {<<Junk>>, <<LBracket>>, <<>>}

Texts ==
    {pre \o body \o suf :
        pre \in {<<>>, <<FenceJson>>, <<Fence>>}, body \in Bodies, suf \in {<<>>, <<Fence>>}}

\* What one upload meets: no credential, a failing service call, or a reply.
NoCredential == [kind |-> "no_credential", text |-> <<>>]
ServiceError == [kind |-> "service_error", text |-> <<>>]
TextReply(t) == [kind |-> "text", text |-> t]

Replies == {NoCredential, ServiceError} \cup {TextReply(t) : t \in Texts}

\* ------------------------------------------------------ extraction gateway
\* str.replace(old, ""): every occurrence of the token is removed.
Replace(text, kind) == SelectSeq(text, LAMBDA t : t.kind # kind)

\* Slip: only the bare fence is replaced, which leaves the json fence behind.
CleanResponse_OnlyBareFence(text) == Replace(text, "fence")

\* response.text.strip() with the json fence, then the bare fence, replaced by
\* the empty string.
CleanResponse(text) == Replace(Replace(text, "fence_json"), "fence")

\* json.loads succeeds on the token texts that are one array of objects.
JsonLoadsOk(text) ==
    /\ Len(text) >= 2
    /\ text[1].kind = "["
    /\ text[Len(text)].kind = "]"
    /\ \A i \in 2..(Len(text) - 1) : text[i].kind = "object"

json_loads(text) == [i \in 1..(Len(text) - 2) |-> text[i + 1].val]

configure_ai(reply) == reply.kind # "no_credential"

parse_quiz_file_with_ai(reply) ==
    IF ~configure_ai(reply) THEN <<>>
    ELSE IF reply.kind = "service_error" THEN <<>>
    ELSE LET json_text == CleanResponse(reply.text)
         IN  IF JsonLoadsOk(json_text) THEN json_loads(json_text) ELSE <<>>

\* ------------------------------------------------------------ the session
\* st.session_state as one value, so that handlers are functions of it.
Session ==
    [state |-> state, questions |-> questions,
     current_question |-> current_question, user_answers |-> user_answers]

SessionNext ==
    [state |-> state', questions |-> questions',
     current_question |-> current_question', user_answers |-> user_answers']

Becomes(s) ==
    /\ state' = s.state
    /\ questions' = s.questions
    /\ current_question' = s.current_question
    /\ user_answers' = s.user_answers
    /\ visited' = IF s.state = "initial" THEN {} ELSE visited \cup {s.current_question}

\* The empty dict.
EmptyDict == [i \in {} |-> None]

\* d[k] = v on a dict.
DictSet(d, k, v) == [i \in (DOMAIN d) \cup {k} |-> IF i = k THEN v ELSE d[i]]

\* d.get(k, default)
DictGet(d, k, default) == IF k \in DOMAIN d THEN d[k] ELSE default

\* The session after lines 101-105 have run on an empty st.session_state.
InitialSession ==
    [state |-> "initial", questions |-> <<>>, current_question |-> 0, user_answers |-> EmptyDict]

\* ------------------------------------------------------------- handlers
\* Slip: the quiz is started whatever the parser returned.
upload_AlwaysStarts(s, reply) ==
    [s EXCEPT !.questions = parse_quiz_file_with_ai(reply), !.state = "quiz_started"]

upload(s, reply) ==
    LET qs == parse_quiz_file_with_ai(reply)
    IN  IF qs # <<>>
        THEN [s EXCEPT !.questions = qs, !.state = "quiz_started"]
        ELSE [s EXCEPT !.questions = qs]

\* The labels offered by the selectbox, "Question 1" .. "Question n",
\* represented by their numbers.
JumperOptions(s) == {i + 1 : i \in 0..(Len(s.questions) - 1)}

\* Slip: the label number is used as the index (the - 1 is forgotten).
jump_to_question_NoMinusOne(s, selected) ==
    [s EXCEPT !.current_question = selected, !.state = "quiz_started"]

\* Slip: the jump changes the index and leaves the phase as it is.
jump_to_question_KeepsState(s, selected) ==
    [s EXCEPT !.current_question = selected - 1]

\* Slip: re-entering a question blanks its stored answer.
jump_to_question_ClearsAnswer(s, selected) ==
    [s EXCEPT !.current_question = selected - 1, !.state = "quiz_started",
              !.user_answers = [i \in (DOMAIN s.user_answers) \ {selected - 1} |-> s.user_answers[i]]]

jump_to_question(s, selected) ==
    LET new_index == selected - 1
    IN  [s EXCEPT !.current_question = new_index, !.state = "quiz_started"]

valid_options(q_data) == SelectSeq(q_data.options, LAMBDA opt : opt # "")

q_data_of(s) == s.questions[s.current_question + 1]

\* The values st.radio can return: one of the options, or None when the
\* option list is empty.
RadioChoices(options) == IF Len(options) = 0 THEN {None} ELSE Range(options)

\* list.index(v), 0-based: the first position that holds v.
ListIndex(list, v) ==
    (CHOOSE i \in 1..Len(list) : list[i] = v /\ \A k \in 1..(i - 1) : list[k] # v) - 1

\* Slip: the stored answer is not looked up; the first option is preselected.
previous_answer_index_AlwaysFirst(s) == 0

previous_answer_index(s) ==
    LET previous_answer == DictGet(s.user_answers, s.current_question, None)
        opts == valid_options(q_data_of(s))
    IN  IF previous_answer \in Range(opts) THEN ListIndex(opts, previous_answer) ELSE 0

\* The option the answer form shows selected: st.radio(..., index=...) with
\* no interaction; None when there is no option.
preselected(s) ==
    LET opts == valid_options(q_data_of(s))
    IN  IF Len(opts) = 0 THEN None ELSE opts[previous_answer_index(s) + 1]

\* Slip: the ledger is keyed by the 1-based question number.
submit_OneBasedKey(s, user_choice) ==
    [s EXCEPT !.user_answers = DictSet(s.user_answers, s.current_question + 1, user_choice),
              !.state = "show_feedback"]

\* Slip: the ledger is replaced instead of updated.
submit_ReplacesLedger(s, user_choice) ==
    [s EXCEPT !.user_answers = DictSet(EmptyDict, s.current_question, user_choice),
              !.state = "show_feedback"]

\* Slip: the filtered option list is written back into the question record.
submit_FiltersInPlace(s, user_choice) ==
    [s EXCEPT !.user_answers = DictSet(s.user_answers, s.current_question, user_choice),
              !.state = "show_feedback",
              !.questions[s.current_question + 1].options = valid_options(q_data_of(s))]

submit(s, user_choice) ==
    [s EXCEPT !.user_answers = DictSet(s.user_answers, s.current_question, user_choice),
              !.state = "show_feedback"]

is_last_question(s) == s.current_question + 1 = Len(s.questions)

\* Slip: the quiz is finished from the feedback of any question.
advance_FinishesEarly(s) == [s EXCEPT !.state = "finished"]

\* Slip: the last question wraps around to the first one.
advance_Wraps(s) ==
    IF ~is_last_question(s)
    THEN [s EXCEPT !.current_question = s.current_question + 1, !.state = "quiz_started"]
    ELSE [s EXCEPT !.current_question = 0, !.state = "quiz_started"]

advance(s) ==
    IF ~is_last_question(s)
    THEN [s EXCEPT !.current_question = s.current_question + 1, !.state = "quiz_started"]
    ELSE [s EXCEPT !.state = "finished"]

\* sum(1 for i, q in enumerate(questions) if user_answers.get(i) == q['answer'])
RECURSIVE ScoreFrom(_, _)
ScoreFrom(s, i) ==
    IF i >= Len(s.questions) THEN 0
    ELSE (IF DictGet(s.user_answers, i, None) = s.questions[i + 1].answer THEN 1 ELSE 0)
         + ScoreFrom(s, i + 1)

\* Slip: an unanswered question is compared with its own answer.
score_DefaultsToAnswer(s) ==
    Cardinality({i \in 0..(Len(s.questions) - 1) :
        DictGet(s.user_answers, i, s.questions[i + 1].answer) = s.questions[i + 1].answer})

score(s) == ScoreFrom(s, 0)

\* Slip: the verdict only checks that the stored answer is one of the options.
feedback_correct_AnyOption(s) ==
    DictGet(s.user_answers, s.current_question, "") \in Range(q_data_of(s).options)

\* The verdict of the feedback screen: last_answer == correct_answer.
feedback_correct(s) ==
    LET last_answer == DictGet(s.user_answers, s.current_question, "")
        correct_answer == q_data_of(s).answer
    IN  last_answer = correct_answer

\* Slip: the answers of the finished quiz survive the reset.
take_new_quiz_KeepsAnswers(s) == [InitialSession EXCEPT !.user_answers = s.user_answers]

\* Every key of st.session_state is deleted, and the rerun initialises it.
take_new_quiz(s) == InitialSession

\* --------------------------------------------------------------- actions
Init ==
    /\ state = "initial"
    /\ questions = <<>>
    /\ current_question = 0
    /\ user_answers = EmptyDict
    /\ upload_error = FALSE
    /\ visited = {}

Upload(reply) ==
    /\ state = "initial"
    /\ Becomes(upload(Session, reply))
    /\ upload_error' = (parse_quiz_file_with_ai(reply) = <<>>)

UploadFile ==
    /\ state = "initial"
    /\ \E reply \in Replies : Upload(reply)

TakeNewQuiz ==
    /\ state = "finished"
    /\ Becomes(take_new_quiz(Session))
    /\ upload_error' = FALSE

Jump(selected) ==
    /\ state \in {"quiz_started", "show_feedback"}
    /\ Becomes(jump_to_question(Session, selected))
    /\ UNCHANGED upload_error

SkipToQuestion ==
    /\ state \in {"quiz_started", "show_feedback"}
    /\ \E selected \in JumperOptions(Session) : Jump(selected)

Submit(user_choice) ==
    /\ state = "quiz_started"
    /\ Becomes(submit(Session, user_choice))
    /\ UNCHANGED upload_error

CheckAnswer ==
    /\ state = "quiz_started"
    /\ \E user_choice \in RadioChoices(valid_options(q_data_of(Session))) : Submit(user_choice)

\* Slip: the button is rendered below the answer form as well.
NextQuestion_AnyPhase ==
    /\ state \in {"quiz_started", "show_feedback"}
    /\ Becomes(advance(Session))
    /\ UNCHANGED upload_error

NextQuestion ==
    /\ state = "show_feedback"
    /\ Becomes(advance(Session))
    /\ UNCHANGED upload_error

Next ==
    \/ UploadFile
    \/ TakeNewQuiz
    \/ SkipToQuestion
    \/ CheckAnswer
    \/ NextQuestion

Spec == Init /\ [][Next]_vars

\* ------------------------------------------------------------ longer quizzes
\* The same session over longer quizzes of well-formed replies: stores of up
\* to MaxLongQuiz records, each either an ordinary question or one without
\* options.
MaxLongQuiz == 3

LongRecords ==
    {[question |-> "Q", options |-> <<"A", "B">>, answer |-> "A"],
     [question |-> "Q", options |-> <<>>, answer |-> "A"]}

LongStores == SeqsUpTo(LongRecords, MaxLongQuiz)

UploadLongQuiz ==
    /\ state = "initial"
    /\ \E store \in LongStores : Upload(TextReply(ArrayText(store)))

NextLong ==
    \/ UploadLongQuiz
    \/ TakeNewQuiz
    \/ SkipToQuestion
    \/ CheckAnswer
    \/ NextQuestion

SpecLong == Init /\ [][NextLong]_vars

\* The user keeps answering and advancing: a shown answer form is eventually
\* submitted and a shown feedback screen is eventually left by its button.
SpecLongFair == SpecLong /\ WF_vars(CheckAnswer) /\ WF_vars(NextQuestion)

\* ================================================================ claims
Indices == 0..(Len(questions) - 1)

InQuiz == state \in {"quiz_started", "show_feedback", "finished"}

\* C1: after any extraction every record of the question store has its
\* answer among its options; a record whose answer is not one of its options
\* never enters the store, and a reply holding only such a record leaves the
\* store empty and the session in 'initial'.
C1_AnswerAmongOptions ==
    \A i \in 1..Len(questions) : questions[i].answer \in Range(questions[i].options)

\* C2: round trip.  Starting at index 0 of a non-empty store and, for each
\* index in order, submitting the question's answer and advancing, ends in
\* 'finished' with a score of len(questions); and every finished session all of
\* whose questions carry their correct answer scores len(questions).
Answerable(qs) ==
    \A i \in 1..Len(qs) : qs[i].answer \in RadioChoices(valid_options(qs[i]))

Loaded(qs) == [InitialSession EXCEPT !.questions = qs, !.state = "quiz_started"]

RECURSIVE AnswerInOrder(_, _)
AnswerInOrder(s, n) ==
    IF n = 0 THEN s
    ELSE AnswerInOrder(advance(submit(s, q_data_of(s).answer)), n - 1)

AllAnsweredCorrectly ==
    \A i \in Indices : i \in DOMAIN user_answers /\ user_answers[i] = questions[i + 1].answer

C2_RoundTripScore ==
    /\ (InQuiz /\ Answerable(questions)) =>
          LET f == AnswerInOrder(Loaded(questions), Len(questions))
          IN  f.state = "finished" /\ score(f) = Len(questions)
    /\ (state = "finished" /\ AllAnsweredCorrectly) => score(Session) = Len(questions)

C2_Witness ==
    /\ state = "finished"
    /\ Len(questions) >= 2
    /\ AllAnsweredCorrectly
    /\ Session = AnswerInOrder(Loaded(questions), Len(questions))

\* C3: in 'finished' the score is the number of indices that have a ledger
\* entry equal to the question's answer; an index without an entry counts as
\* incorrect, so 0 <= score <= len(questions) and score <= number of answered
\* questions.
CorrectIndices ==
    {i \in Indices : i \in DOMAIN user_answers /\ user_answers[i] = questions[i + 1].answer}

C3_ScoreCountsCorrectEntries ==
    state = "finished" =>
        /\ score(Session) = Cardinality(CorrectIndices)
        /\ 0 <= score(Session)
        /\ score(Session) <= Len(questions)
        /\ score(Session) <= Cardinality(DOMAIN user_answers)

C3_Witness ==
    /\ state = "finished"
    /\ \E i \in Indices : i \notin DOMAIN user_answers
    /\ score(Session) >= 1

\* C4: whenever the session is in 'quiz_started', 'show_feedback' or
\* 'finished', the question store is non-empty and
\* 0 <= current_question < len(questions).
C4_CurrentIndexInRange ==
    InQuiz =>
        /\ questions # <<>>
        /\ 0 <= current_question
        /\ current_question < Len(questions)

C4_Witness ==
    /\ state = "quiz_started"
    /\ Len(questions) >= 2
    /\ current_question = Len(questions) - 1
    /\ 0 \in DOMAIN user_answers

\* C5: advancing from 'show_feedback' at index i goes to 'quiz_started' at
\* i + 1 when i + 1 < len(questions), and to 'finished' with the index
\* unchanged when i is the last index; ledger and store are unchanged.
C5_AdvanceStep ==
    [][NextQuestion =>
        /\ IF current_question + 1 < Len(questions)
           THEN state' = "quiz_started" /\ current_question' = current_question + 1
           ELSE state' = "finished" /\ current_question' = current_question
        /\ user_answers' = user_answers
        /\ questions' = questions]_vars

C5_Witness ==
    /\ state = "finished"
    /\ Len(questions) >= 2
    /\ current_question = Len(questions) - 1
    /\ DOMAIN user_answers = Indices

\* C6: submitting option o in 'quiz_started' at index i sets answers[i] = o,
\* moves to 'show_feedback', and leaves the index, the store and every other
\* ledger entry unchanged.
C6_SubmitFrame ==
    [][\A o \in OptionStrings \cup {None} :
        Submit(o) =>
            /\ state' = "show_feedback"
            /\ current_question' = current_question
            /\ questions' = questions
            /\ DOMAIN user_answers' = (DOMAIN user_answers) \cup {current_question}
            /\ user_answers'[current_question] = o
            /\ \A k \in (DOMAIN user_answers) \ {current_question} :
                  user_answers'[k] = user_answers[k]]_vars

C6_Witness ==
    /\ state = "show_feedback"
    /\ Cardinality(DOMAIN user_answers) >= 2
    /\ \E k \in DOMAIN user_answers :
          k # current_question /\ user_answers[k] # user_answers[current_question]

\* C7: every ledger entry answers[i] is a non-empty string that is one of
\* questions[i].options, for every store the extraction can produce,
\* including records whose option list is empty or holds only empty strings.
C7_LedgerEntriesAreOptions ==
    \A i \in DOMAIN user_answers :
        /\ i \in Indices
        /\ user_answers[i] # ""
        /\ user_answers[i] \in Range(questions[i + 1].options)

\* C8: a jump to index j from 'quiz_started' or 'show_feedback' lands in
\* 'quiz_started' at index j with the ledger unchanged, and a second jump to
\* j right after it changes nothing.
C8_JumpStep ==
    [][\A j \in Indices :
        Jump(j + 1) =>
            /\ state' = "quiz_started"
            /\ current_question' = j
            /\ user_answers' = user_answers
            /\ jump_to_question(SessionNext, j + 1) = SessionNext]_vars

C8_Witness ==
    /\ state = "quiz_started"
    /\ Len(questions) >= 2
    /\ current_question = 0
    /\ DOMAIN user_answers = Indices

\* C9: an upload whose extraction fails (no credential, service error,
\* unparsable reply) or yields zero questions leaves the session in
\* 'initial' with an empty store, index 0 and an empty ledger, where a
\* further upload is accepted.
FailingBodies == {<<Junk>>, <<LBracket>>, <<>>, <<LBracket, RBracket>>}

FailingReplies ==
    {NoCredential, ServiceError} \cup
    {TextReply(pre \o body \o suf) :
        pre \in {<<>>, <<FenceJson>>, <<Fence>>}, body \in FailingBodies,
        suf \in {<<>>, <<Fence>>}}

C9_FailedUploadStaysInitial ==
    [][state = "initial" => \A reply \in FailingReplies :
        Upload(reply) =>
            /\ state' = "initial"
            /\ questions' = <<>>
            /\ current_question' = 0
            /\ user_answers' = EmptyDict
            /\ upload_error']_vars

C9_Witness ==
    /\ upload_error
    /\ state = "initial"
    /\ questions = <<>>
    /\ FailingReplies \subseteq Replies

\* C10: "Take a New Quiz" clears every session field: the next state is
\* 'initial' with an empty store, index 0 and an empty ledger.
C10_ResetClearsAll ==
    [][TakeNewQuiz =>
        /\ state' = "initial"
        /\ questions' = <<>>
        /\ current_question' = 0
        /\ DOMAIN user_answers' = {}
        /\ ~upload_error']_vars

C10_Witness ==
    /\ state = "finished"
    /\ DOMAIN user_answers = Indices
    /\ Len(questions) >= 2
    /\ ENABLED TakeNewQuiz

\* C11: on the feedback screen the verdict is 'correct' exactly when
\* answers[current_question] equals the question's answer, and it agrees with
\* whether that index is counted by the score; for the single record with
\* options A, B and answer A, submitting A gives 'correct' and a final score
\* of 1, submitting B gives 'incorrect' and a final score of 0.
ScenarioStore == <<[question |-> "Q", options |-> <<"A", "B">>, answer |-> "A"]>>

C11_FeedbackMatchesScore ==
    state = "show_feedback" =>
        /\ feedback_correct(Session) <=>
              (/\ current_question \in DOMAIN user_answers
               /\ user_answers[current_question] = questions[current_question + 1].answer)
        /\ ScoreFrom(Session, current_question) - ScoreFrom(Session, current_question + 1)
              = (IF feedback_correct(Session) THEN 1 ELSE 0)
        /\ questions = ScenarioStore =>
              /\ advance(Session).state = "finished"
              /\ user_answers[0] = "A" => feedback_correct(Session) /\ score(advance(Session)) = 1
              /\ user_answers[0] = "B" => ~feedback_correct(Session) /\ score(advance(Session)) = 0

C11_Witness ==
    /\ state = "show_feedback"
    /\ questions = ScenarioStore
    /\ user_answers[0] = "B"
    /\ ~feedback_correct(Session)

\* C12: the ledger only grows between resets: a step other than the reset
\* keeps every key the ledger has (its value may be overwritten), and the
\* keys are always indices of the question store.
C12_LedgerOnlyGrows ==
    [][/\ TakeNewQuiz \/ (DOMAIN user_answers) \subseteq (DOMAIN user_answers')
       /\ (DOMAIN user_answers') \subseteq 0..(Len(questions') - 1)]_vars

C12_Witness ==
    /\ state = "show_feedback"
    /\ Len(questions) >= 2
    /\ current_question = 0
    /\ DOMAIN user_answers = Indices

\* C13: the question store is read-only after load: no submit, jump or
\* advance changes it; it is written only by an upload in 'initial' and
\* cleared only by the reset.
C13_StoreReadOnly ==
    [][/\ (SkipToQuestion \/ CheckAnswer \/ NextQuestion) => questions' = questions
       /\ state \in {"quiz_started", "show_feedback"} => questions' = questions
       /\ questions' # questions =>
             \/ state = "initial"
             \/ state = "finished" /\ questions' = <<>>]_vars

C13_Witness ==
    /\ state = "finished"
    /\ Len(questions) >= 2
    /\ DOMAIN user_answers = Indices
    /\ \A i \in 1..Len(questions) : "" \in Range(questions[i].options)

\* C14: each operation takes effect only in its own phase.  A step taken in
\* 'initial' can only load the store; in 'quiz_started' only write the entry
\* of the current index or jump; in 'show_feedback' only advance or jump; in
\* 'finished' only reset.
C14_PhaseFrames ==
    [][/\ state = "initial" =>
             /\ state' \in {"initial", "quiz_started"}
             /\ current_question' = current_question
             /\ user_answers' = user_answers
       /\ state = "quiz_started" =>
             /\ state' \in {"quiz_started", "show_feedback"}
             /\ questions' = questions
             /\ state' = "quiz_started" => user_answers' = user_answers
             /\ state' = "show_feedback" =>
                   /\ current_question' = current_question
                   /\ DOMAIN user_answers' = (DOMAIN user_answers) \cup {current_question}
                   /\ \A k \in (DOMAIN user_answers) \ {current_question} :
                         user_answers'[k] = user_answers[k]
       /\ state = "show_feedback" =>
             /\ state' \in {"quiz_started", "finished"}
             /\ questions' = questions
             /\ user_answers' = user_answers
             /\ state' = "finished" => current_question' = current_question
       /\ state = "finished" =>
             /\ state' = "initial"
             /\ questions' = <<>>
             /\ current_question' = 0
             /\ user_answers' = EmptyDict]_vars

C14_Witness ==
    /\ state = "show_feedback"
    /\ Len(questions) >= 2
    /\ current_question = Len(questions) - 1
    /\ DOMAIN user_answers = {current_question}

\* C15: when the answer form is shown for a question that already has a
\* ledger entry, the preselected option is that entry, and submitting the
\* preselected option leaves the ledger unchanged.
C15_PreselectsStoredAnswer ==
    (state = "quiz_started" /\ current_question \in DOMAIN user_answers) =>
        /\ preselected(Session) = user_answers[current_question]
        /\ submit(Session, preselected(Session)).user_answers = user_answers

C15_Witness ==
    /\ state = "quiz_started"
    /\ current_question \in DOMAIN user_answers
    /\ valid_options(q_data_of(Session)) = <<"A", "B">>
    /\ user_answers[current_question] = "B"
    /\ preselected(Session) = "B"

\* C16: fence stripping is transparent: the store extracted from the text of
\* a JSON array wrapped in fencing markers is the store extracted from the
\* text itself.
Fenced(text) == <<FenceJson>> \o text \o <<Fence>>

C16_FenceTransparent ==
    LET text == ArrayText(questions)
    IN  /\ parse_quiz_file_with_ai(TextReply(Fenced(text))) = parse_quiz_file_with_ai(TextReply(text))
        /\ parse_quiz_file_with_ai(TextReply(<<Fence>> \o text \o <<Fence>>))
              = parse_quiz_file_with_ai(TextReply(text))

C16_Witness ==
    /\ state = "quiz_started"
    /\ Len(questions) >= 2
    /\ TextReply(Fenced(ArrayText(questions))) \in Replies
    /\ parse_quiz_file_with_ai(TextReply(Fenced(ArrayText(questions)))) = questions

\* C17: whenever the feedback screen is shown, the ledger has an entry for
\* the current index.
C17_FeedbackHasEntry ==
    state = "show_feedback" => current_question \in DOMAIN user_answers

C17_Witness ==
    /\ state = "show_feedback"
    /\ Len(questions) >= 2
    /\ current_question = 0
    /\ DOMAIN user_answers = {0}

\* C18 (as claimed): in every finished state every index of the store has
\* been the current question since the store was loaded.
C18_AllTraversed ==
    state = "finished" => visited = Indices

\* C18 (amended): 'finished' is entered only by advancing from the feedback
\* of the last question: in every finished state the current index is the
\* last one, it has a ledger entry, and the first and the last index have
\* been the current question; the indices in between need not have been.
C18_FinishedFromLast ==
    state = "finished" =>
        /\ current_question = Len(questions) - 1
        /\ current_question \in DOMAIN user_answers
        /\ {0, current_question} \subseteq visited
        /\ visited \subseteq Indices

C18_Witness ==
    /\ state = "finished"
    /\ Len(questions) >= 3
    /\ visited = {0, Len(questions) - 1}
    /\ DOMAIN user_answers = {Len(questions) - 1}

\* C19: progress.  If the user keeps submitting and advancing and from some
\* point on takes no more jumps, every answer form and every feedback screen
\* is eventually followed by 'finished'.
NoJumpStep ==
    \/ UploadLongQuiz
    \/ TakeNewQuiz
    \/ CheckAnswer
    \/ NextQuestion

C19_Progress ==
    (<>[][NoJumpStep]_vars) => ((state \in {"quiz_started", "show_feedback"}) ~> (state = "finished"))

C19_Witness ==
    /\ state = "finished"
    /\ Len(questions) >= 3
    /\ visited = Indices
    /\ DOMAIN user_answers = Indices

====
